---- MODULE Spec2Model ----
(***************************************************************************)
(* A model of env_canada: the nearest-station resolvers of ECHydro, ECData *)
(* and ECAQHI, the construction / poll / fetch life cycle of the three     *)
(* classes, and the call limiter that guards ECData.update.                *)
(*                                                                         *)
(* Two specifications are given.  SpecResolver draws a catalog and a       *)
(* target and applies the four closest_* functions.  Spec is the life      *)
(* cycle of an instance: construction, poll (update), the Consumer         *)
(* callback process_message, and the fetches.                              *)
(***************************************************************************)
EXTENDS Integers, Sequences, FiniteSets, TLC

(***************************************************************************)
(* Bounds of the model.                                                    *)
(***************************************************************************)
\* longest catalog drawn for the resolvers
MaxCatalog == 3
\* latitudes are 0..MaxCoord, longitudes -MaxCoord..0 (west is negative)
MaxCoord == 1
\* Consumer callbacks dispatched within one poll
MaxMsgs == 2
\* the clock runs from 0 to MaxTime in steps of TickStep
MaxTime == 60
TickStep == 30
\* SpecQueue: the suffixes a process may draw are 0..MaxSuffix - 1; the
\* processes, the instances made, the notifications that wait in a queue
\* or were published for one instance
MaxSuffix == 2
MaxProcs == 2
MaxInsts == 2
MaxPublished == 2
\* SpecAlerts: the words of a title, the events of a document
MaxTitle == 2
MaxAlerts == 2
\* SpecCalls: the time a call is followed while the peer is silent
MaxWait == 12
\* SpecCache: the clock runs from 0 to MaxClock in steps of ClockStep
\* (minutes); the requests made
MaxClock == 200
ClockStep == 100
MaxRequests == 2

(***************************************************************************)
(* Python values.  A stored value is written by where it comes from:       *)
(* "fresh" is a value read from the document of the latest fetch of its    *)
(* sub-feed, "stale" a value read from an earlier document.                *)
(***************************************************************************)
\* None
None == "None"
\* a key that a dict does not hold
Missing == "Missing"
\* a value read from the document of the latest fetch, or of an earlier one
Fresh == "fresh"
Stale == "stale"
\* a value read from the latest document becomes one of an earlier document
\* when its sub-feed is fetched again
Age(v) == IF v = Fresh THEN Stale ELSE v

\* the outcome of a call: a returned value, or a raised exception
Return(v) == [raised |-> FALSE, exc |-> "", value |-> v]
Raise(e) == [raised |-> TRUE, exc |-> e, value |-> None]

VARIABLES
    \* SpecResolver: the loaded catalog, the target and the last call
    catalog, target, res,
    \* Spec: the class the program uses, and its instance (the fields, and
    \* whether it exists)
    cls, hydro, aqhi, data,
    \* the position of update(): "idle", "listening" (inside drain_events),
    \* "cancelling" (leaving the Consumer block)
    pc,
    \* what the poll in progress (or the last one) has done
    poll,
    \* the last handler that ran: its name, whether it raised, what it fetched
    last,
    \* the limiter of ECData.update, the clock
    limiter, now

rvars == <<catalog, target, res>>
mvars == <<cls, hydro, aqhi, data, pc, poll, last, limiter, now>>

VARIABLES
    \* SpecQueue: the queue name each process has drawn at import, the
    \* instances, and the queues of the broker
    names, insts, queues

qvars == <<names, insts, queues>>

VARIABLES
    \* SpecAlerts: the language of the instance, the titles of the events
    \* of the weather document, and the alerts that update has stored
    language, alert_list, alerts

avars == <<language, alert_list, alerts>>

VARIABLES
    \* SpecCalls: the operation in progress, the remote calls it has still
    \* to make (the first one is in progress), the time the call in
    \* progress has waited, and how the last operation ended
    running, todo, waited, outcome

cvars == <<running, todo, waited, outcome>>

VARIABLES
    \* SpecLimiter: the times of the latest calls of ECData.update that
    \* performed a fetch, the oldest first
    fetched

lvars == <<fetched>>

VARIABLES
    \* SpecCache: CacheClientSession._cache, the clock, the requests that
    \* await their response, the number of requests made, and what the
    \* latest step of a get has done
    cache, clock, inflight, issued, served

kvars == <<cache, clock, inflight, issued, served>>

\* the variables of the other specifications, which the actions of Spec and
\* SpecResolver leave alone
xvars == <<qvars, avars, cvars, lvars, kvars>>
\* the variables that the actions of SpecQueue, and of SpecAlerts, leave alone
notq == <<rvars, mvars, avars, cvars, lvars, kvars>>
nota == <<rvars, mvars, qvars, cvars, lvars, kvars>>
notc == <<rvars, mvars, qvars, avars, lvars, kvars>>
notl == <<rvars, qvars, avars, cvars, kvars>>
notk == <<rvars, mvars, qvars, avars, cvars, lvars>>
vars == <<catalog, target, res, cls, hydro, aqhi, data, pc, poll, last, limiter, now,
          names, insts, queues, language, alert_list, alerts,
          running, todo, waited, outcome, fetched,
          cache, clock, inflight, issued, served>>

(***************************************************************************)
(* Nearest-station resolution.                                             *)
(***************************************************************************)
Coords == {<<lat, lon>> : lat \in 0..MaxCoord, lon \in -MaxCoord..0}

\* geopy's distance.distance, an external primitive: here the squared
\* distance on the grid of Coords, which orders the sites the same way for
\* every target and leaves ties.
distance(a, b) == (a[1] - b[1]) * (a[1] - b[1]) + (a[2] - b[2]) * (a[2] - b[2])

\* site_distance, the key of min(): the distance of a site to (lat, lon)
site_distance(lat, lon, site) ==
    distance(<<lat, lon>>, <<site.Latitude, site.Longitude>>)

\* Mutants of PyMinScan: the last of the minima; the maximum.
RECURSIVE PyMinScanLast(_, _, _)
PyMinScanLast(keys, i, best) ==
    IF i > Len(keys) THEN best
    ELSE IF keys[i] <= keys[best] THEN PyMinScanLast(keys, i + 1, i)
    ELSE PyMinScanLast(keys, i + 1, best)

RECURSIVE PyMinScanMax(_, _, _)
PyMinScanMax(keys, i, best) ==
    IF i > Len(keys) THEN best
    ELSE IF keys[i] > keys[best] THEN PyMinScanMax(keys, i + 1, i)
    ELSE PyMinScanMax(keys, i + 1, best)

\* Python's min(iterable, key=...): one pass that keeps the item seen so far
\* and replaces it only by an item whose key is strictly smaller.  keys[i]
\* is the key of the i-th item; the result is the index of the item kept.
RECURSIVE PyMinScan(_, _, _)
PyMinScan(keys, i, best) ==
    IF i > Len(keys) THEN best
    ELSE IF keys[i] < keys[best] THEN PyMinScan(keys, i + 1, i)
    ELSE PyMinScan(keys, i + 1, best)

\* min(site_list, key=site_distance): ValueError on an empty list
PyMin(site_list, lat, lon) ==
    IF Len(site_list) = 0 THEN Raise("ValueError")
    ELSE Return(site_list[PyMinScan(
             [i \in 1..Len(site_list) |-> site_distance(lat, lon, site_list[i])],
             2, 1)])

\* The identifiers of the i-th record of a catalog: station "5", "55",
\* "555", ... (each a prefix of the next), provinces AB and BC in turn.
IdAt(i) == [k \in 1..i |-> "5"]
ProvAt(i) == IF i % 2 = 1 THEN <<"A", "B">> ELSE <<"B", "C">>
ZoneAt(i) == IF i % 2 = 1 THEN <<"o">> ELSE <<"a">>
RegionAt(i) == [k \in 1..i |-> "X"]

\* The site lists the loaders return for a catalog whose i-th record lies at
\* pts[i].
get_hydro_sites(pts) ==
    [i \in 1..Len(pts) |->
        [Prov |-> ProvAt(i), ID |-> IdAt(i), Name |-> IdAt(i),
         Latitude |-> pts[i][1], Longitude |-> pts[i][2]]]

\* site_list_en.csv gives "45.0N" and "75.0W": the loader strips the letter
\* and negates the longitude; rows of province HEF are left out.
EcRows(pts) ==
    [i \in 1..Len(pts) |->
        [Codes |-> IdAt(i), ProvinceCodes |-> ProvAt(i),
         LatitudeN |-> pts[i][1], LongitudeW |-> 0 - pts[i][2]]]

EcSite(row) ==
    [Codes |-> row.Codes, ProvinceCodes |-> row.ProvinceCodes,
     Latitude |-> row.LatitudeN, Longitude |-> (0 - 1) * row.LongitudeW]

get_ec_sites(pts) ==
    LET rows == SelectSeq(EcRows(pts), LAMBDA r : r.ProvinceCodes # <<"H", "E", "F">>)
    IN  [i \in 1..Len(rows) |-> EcSite(rows[i])]

get_aqhi_regions(pts) ==
    [i \in 1..Len(pts) |->
        [abbreviation |-> ZoneAt(i), cgndb |-> RegionAt(i),
         Latitude |-> pts[i][1], Longitude |-> pts[i][2]]]

\* ECHydro.closest_site: the record itself
ECHydro_closest_site(pts, lat, lon) == PyMin(get_hydro_sites(pts), lat, lon)

\* ECData.closest_site: '{}/{}'.format(Province Codes, Codes)
ECData_closest_site(pts, lat, lon) ==
    LET closest == PyMin(get_ec_sites(pts), lat, lon)
    IN  IF closest.raised THEN closest
        ELSE Return(closest.value.ProvinceCodes \o <<"/">> \o closest.value.Codes)

\* ECData.closest_aqhi and ECAQHI.closest_aqhi: (abbreviation, cgndb)
ECData_closest_aqhi(pts, lat, lon) ==
    LET closest == PyMin(get_aqhi_regions(pts), lat, lon)
    IN  IF closest.raised THEN closest
        ELSE Return(<<closest.value.abbreviation, closest.value.cgndb>>)

ECAQHI_closest_aqhi(pts, lat, lon) ==
    LET closest == PyMin(get_aqhi_regions(pts), lat, lon)
    IN  IF closest.raised THEN closest
        ELSE Return(<<closest.value.abbreviation, closest.value.cgndb>>)

\* the catalogs drawn: every sequence of at most MaxCatalog places
RECURSIVE SeqsUpTo(_, _)
SeqsUpTo(S, n) ==
    IF n = 0 THEN {<<>>}
    ELSE LET shorter == SeqsUpTo(S, n - 1)
         IN  shorter \cup {Append(s, x) : s \in {t \in shorter : Len(t) = n - 1}, x \in S}

Catalogs == SeqsUpTo(Coords, MaxCatalog)

\* the targets drawn: the places of one diagonal of the grid, from a
\* corner to the opposite one (a mirror image of the grid takes any other
\* corner to one of these)
Targets == {<<k, 0 - k>> : k \in 0..MaxCoord}

NoCall == [fn |-> "none", out |-> Raise("")]

Called(fn, out) == [fn |-> fn, out |-> out]

HydroClosestSite ==
    /\ res' = Called("ECHydro.closest_site",
                     ECHydro_closest_site(catalog, target[1], target[2]))
    /\ UNCHANGED <<catalog, target, mvars, xvars>>

DataClosestSite ==
    /\ res' = Called("ECData.closest_site",
                     ECData_closest_site(catalog, target[1], target[2]))
    /\ UNCHANGED <<catalog, target, mvars, xvars>>

DataClosestAqhi ==
    /\ res' = Called("ECData.closest_aqhi",
                     ECData_closest_aqhi(catalog, target[1], target[2]))
    /\ UNCHANGED <<catalog, target, mvars, xvars>>

AqhiClosestAqhi ==
    /\ res' = Called("ECAQHI.closest_aqhi",
                     ECAQHI_closest_aqhi(catalog, target[1], target[2]))
    /\ UNCHANGED <<catalog, target, mvars, xvars>>

(***************************************************************************)
(* Strings.  A string is a sequence of tokens: the characters of an        *)
(* identifier, and the literal pieces of a template, each one token.       *)
(***************************************************************************)
\* Python's `path in body`: path occurs in body as a contiguous piece
Contains(body, path) ==
    \E i \in 0..(Len(body) - Len(path)) : SubSeq(body, i + 1, i + Len(path)) = path

\* a notification's body: the time, the server, then the path of the file
Body(path) == <<"20201105120000.000", " ", "https://dd.weather.gc.ca", " ">> \o path

\* What every handler leaves in `last`: its name and class, whether it
\* raised and within which sub-feed's fetch, the sub-feeds it requested, the
\* body it was given, whether it found the catalog empty, and, of the
\* documents it retrieved, the element they are without and whether they
\* were all retrieved and parsed.
Did(op, class) ==
    [op |-> op, cls |-> class, raised |-> FALSE, failed |-> "", fetch |-> {},
     body |-> <<>>,
     catalog_empty |-> FALSE, lacks |-> "nothing",
     docs_ok |-> TRUE]

\* What a poll has done: the callbacks dispatched, those among them whose
\* message notifies a file of this instance, and the fetches per sub-feed.
NoPoll == [msgs |-> 0, matched |-> 0,
           fetches |-> [data |-> 0, observation |-> 0, forecast |-> 0]]

\* the catalogs a constructor may find loaded: two places of which the
\* second is the closer to the coordinates given, or no place at all
World == <<(<<MaxCoord, 0 - MaxCoord>>), (<<0, 0>>)>>
Loaded == {<<>>, World}

\* the coordinates argument: a pair, or None (written <<>>)
CoordArgs == {<<>>, <<0, 0>>}

(***************************************************************************)
(* ECHydro.                                                                *)
(***************************************************************************)
HYDRO_MESSAGE(prov, station) ==
    <<"/hydrometric/csv/">> \o prov \o <<"/hourly/">> \o prov \o <<"_">>
        \o station \o <<"_hourly_hydrometric.csv">>

HydroProvs == {ProvAt(i) : i \in 1..2}
HydroStations == {IdAt(i) : i \in 1..2}
HydroBodies == {Body(HYDRO_MESSAGE(p, s)) : p \in HydroProvs, s \in HydroStations}

\* The hourly CSV of a station: the request or the decoding fails ("error"),
\* the file holds no reading ("empty"), or its last row holds a water
\* level, a discharge and a date; a cell is empty (""), a number ("num"), or
\* not a number / not a date / not there ("bad").
HydroDocs ==
    [kind : {"error", "empty"}, wl : {""}, dis : {""}, date : {"ok"}]
    \cup [kind : {"rows"}, wl : {"", "num", "bad"}, dis : {"", "num", "bad"},
          date : {"ok", "bad"}]

NoHydro ==
    [alive |-> FALSE, province |-> <<>>, station |-> <<>>, location |-> <<None>>,
     measurements |-> [water_level |-> Missing, discharge |-> Missing],
     timestamp |-> None]

HydroAged(self) ==
    [self EXCEPT !.measurements.water_level = Age(@),
                 !.measurements.discharge = Age(@),
                 !.timestamp = Age(@)]

\* ECHydro.fetch_new_data: the object after the call, and whether it raised
fetch_new_data(self, doc) ==
    LET s0 == HydroAged(self)
        s1 == IF doc.wl = "num" THEN [s0 EXCEPT !.measurements.water_level = Fresh] ELSE s0
        s2 == IF doc.dis = "num" THEN [s1 EXCEPT !.measurements.discharge = Fresh] ELSE s1
        s3 == [s2 EXCEPT !.timestamp = Fresh]
    IN  IF doc.kind = "error" THEN [raised |-> TRUE, self |-> s0]
        ELSE IF doc.kind = "empty" THEN [raised |-> FALSE, self |-> s0]
        ELSE IF doc.wl = "bad" THEN [raised |-> TRUE, self |-> s0]
        ELSE IF doc.dis = "bad" THEN [raised |-> TRUE, self |-> s1]
        ELSE IF doc.date = "bad" THEN [raised |-> TRUE, self |-> s2]
        ELSE [raised |-> FALSE, self |-> s3]

\* A mutant of HydroResolve: with an empty catalog the first station of the
\* first province is taken.
HydroResolveDefault(province, station, coordinates, pts) ==
    LET explicit == province # <<>> /\ station # <<>>
        closest == IF coordinates = <<>> THEN Raise("TypeError")
                   ELSE IF Len(pts) = 0
                   THEN Return([Prov |-> ProvAt(1), ID |-> IdAt(1), Name |-> IdAt(1)])
                   ELSE ECHydro_closest_site(pts, coordinates[1], coordinates[2])
        known == [catalog_empty |-> ~explicit /\ coordinates # <<>> /\ Len(pts) = 0]
    IN  IF explicit
        THEN [raised |-> FALSE, self |-> [NoHydro EXCEPT !.province = province,
                                                         !.station = station]] @@ known
        ELSE IF closest.raised THEN [raised |-> TRUE, self |-> NoHydro] @@ known
        ELSE [raised |-> FALSE,
              self |-> [NoHydro EXCEPT !.province = closest.value.Prov,
                                       !.station = closest.value.ID,
                                       !.location = closest.value.Name]] @@ known

\* ECHydro.__init__, up to the fetch: the station is the one given, or the
\* closest one of the loaded catalog
HydroResolve(province, station, coordinates, pts) ==
    LET explicit == province # <<>> /\ station # <<>>
        closest == IF coordinates = <<>> THEN Raise("TypeError")
                   ELSE ECHydro_closest_site(pts, coordinates[1], coordinates[2])
        known == [catalog_empty |-> ~explicit /\ coordinates # <<>> /\ Len(pts) = 0]
    IN  IF explicit
        THEN [raised |-> FALSE, self |-> [NoHydro EXCEPT !.province = province,
                                                         !.station = station]] @@ known
        ELSE IF closest.raised THEN [raised |-> TRUE, self |-> NoHydro] @@ known
        ELSE [raised |-> FALSE,
              self |-> [NoHydro EXCEPT !.province = closest.value.Prov,
                                       !.station = closest.value.ID,
                                       !.location = closest.value.Name]] @@ known

HydroResolved ==
    {HydroResolve(province, station, coordinates, pts) :
        province \in HydroProvs \cup {<<>>}, station \in HydroStations \cup {<<>>},
        coordinates \in CoordArgs, pts \in Loaded}

\* ECHydro.__init__
NewECHydro ==
    /\ cls = "ECHydro" /\ pc = "idle"
    /\ \E r \in HydroResolved, doc \in HydroDocs :
        LET did == [Did("__init__", "ECHydro") EXCEPT !.catalog_empty = r.catalog_empty]
            got == fetch_new_data(r.self, doc)
        IN  IF r.raised
            THEN /\ hydro' = hydro
                 /\ last' = [did EXCEPT !.raised = TRUE]
            ELSE /\ hydro' = IF got.raised THEN hydro
                             ELSE [got.self EXCEPT !.alive = TRUE]
                 /\ last' = [did EXCEPT !.raised = got.raised,
                                        !.failed = IF got.raised THEN "data" ELSE "",
                                        !.fetch = {"data"},
                                        !.docs_ok = (doc.kind # "error")]
    /\ poll' = NoPoll
    /\ UNCHANGED <<cls, aqhi, data, pc, limiter, now, rvars, xvars>>

\* ECHydro.update, entering the Consumer block and drain_events(timeout=5)
HydroUpdate ==
    /\ hydro.alive /\ pc = "idle"
    /\ pc' = "listening"
    /\ poll' = NoPoll
    /\ last' = Did("update", "ECHydro")
    /\ UNCHANGED <<cls, hydro, aqhi, data, limiter, now, rvars, xvars>>

\* the notification the server publishes for this station's hourly file
HydroNotification(self) == Body(HYDRO_MESSAGE(self.province, self.station))

\* A mutant of ECHydro.process_message: every message is taken for this
\* station's.
HydroMatchesAny(self, body) == TRUE

\* the test of ECHydro.process_message
HydroMatches(self, body) ==
    Contains(body, HYDRO_MESSAGE(self.province, self.station))

\* ECHydro.process_message, the Consumer's callback: once for the event
\* drain_events waits for, and once for every delivery that is dispatched
\* while the Consumer block is left (the consumer is being cancelled).  An
\* exception of the fetch leaves update().
HydroProcessMessage ==
    /\ hydro.alive /\ pc \in {"listening", "cancelling"}
    /\ poll.msgs < MaxMsgs
    /\ \E body \in HydroBodies, doc \in HydroDocs :
        LET did == [Did("process_message", "ECHydro") EXCEPT !.body = body]
            own == IF body = HydroNotification(hydro) THEN 1 ELSE 0
        IN  IF HydroMatches(hydro, body)
            THEN LET got == fetch_new_data(hydro, doc)
                 IN  /\ hydro' = got.self
                     /\ last' = [did EXCEPT !.raised = got.raised,
                                            !.failed = IF got.raised THEN "data" ELSE "",
                                            !.fetch = {"data"},
                                            !.docs_ok = (doc.kind # "error")]
                     /\ pc' = IF got.raised THEN "idle" ELSE "cancelling"
                     /\ poll' = [poll EXCEPT !.msgs = @ + 1, !.matched = @ + own,
                                             !.fetches.data = @ + 1]
            ELSE /\ hydro' = hydro
                 /\ last' = did
                 /\ pc' = "cancelling"
                 /\ poll' = [poll EXCEPT !.msgs = @ + 1, !.matched = @ + own]
    /\ UNCHANGED <<cls, aqhi, data, limiter, now, rvars, xvars>>

\* ECHydro.update: drain_events raises socket.timeout, which is passed over
HydroUpdateTimeout ==
    /\ hydro.alive /\ pc = "listening"
    /\ pc' = "idle"
    /\ last' = Did("update", "ECHydro")
    /\ UNCHANGED <<cls, hydro, aqhi, data, poll, limiter, now, rvars, xvars>>

\* ECHydro.update returns after the Consumer block
HydroUpdateReturn ==
    /\ hydro.alive /\ pc = "cancelling"
    /\ pc' = "idle"
    /\ last' = Did("update", "ECHydro")
    /\ UNCHANGED <<cls, hydro, aqhi, data, poll, limiter, now, rvars, xvars>>

(***************************************************************************)
(* ECAQHI.                                                                 *)
(***************************************************************************)
OBSERVATION_MESSAGE(zone, region) ==
    <<"/air_quality/aqhi/">> \o zone \o <<"/observation/realtime/xml/AQ_OBS_">>
        \o region \o <<"_CURRENT.xml">>

FORECAST_MESSAGE(zone, region) ==
    <<"/air_quality/aqhi/">> \o zone \o <<"/forecast/realtime/xml/AQ_FCST_">>
        \o region \o <<"_CURRENT.xml">>

\* str.lower, str.upper and str.split("/") on the letters used here
LowerChar(c) == CASE c = "O" -> "o" [] c = "A" -> "a" [] c = "X" -> "x" [] OTHER -> c
UpperChar(c) == CASE c = "o" -> "O" [] c = "a" -> "A" [] c = "x" -> "X" [] OTHER -> c
str_lower(s) == [i \in 1..Len(s) |-> LowerChar(s[i])]
str_upper(s) == [i \in 1..Len(s) |-> UpperChar(s[i])]

RECURSIVE str_split(_)
str_split(s) ==
    IF \A i \in 1..Len(s) : s[i] # "/" THEN <<s>>
    ELSE LET i == CHOOSE k \in 1..Len(s) :
                      s[k] = "/" /\ \A j \in 1..(k - 1) : s[j] # "/"
         IN  <<SubSeq(s, 1, i - 1)>> \o str_split(SubSeq(s, i + 1, Len(s)))

AqhiZones == {ZoneAt(i) : i \in 1..2}
AqhiRegions == {RegionAt(i) : i \in 1..2}
AqhiBodies ==
    {Body(OBSERVATION_MESSAGE(z, r)) : z \in AqhiZones, r \in AqhiRegions}
    \cup {Body(FORECAST_MESSAGE(z, r)) : z \in AqhiZones, r \in AqhiRegions}

\* the aqhi_id argument: "zone/region" in either case, a string without a
\* slash, or None (written <<None>>)
AqhiIdArgs ==
    {z \o <<"/">> \o r : z \in {<<"o">>, <<"O">>, <<"a">>}, r \in {<<"X">>, <<"x">>, <<"X", "X">>}}
    \cup {<<"o">>, <<None>>}

\* The observation document: the request or the parse fails ("error"), or
\* it parses, with or without airQualityHealthIndex and dateStamp/UTCStamp.
ObsDocs ==
    [kind : {"error"}, index : {TRUE}, stamp : {TRUE}]
    \cup [kind : {"ok"}, index : BOOLEAN, stamp : BOOLEAN]

\* The forecast document: the request or the parse fails ("error"), it
\* parses ("ok"), or it parses and an element lacks the attribute that is
\* indexed ("badattr": lang, forecastName, UTCTime).
FcDocs == [kind : {"error", "ok", "badattr"}]

\* the dict assigned anew, holding the entries appended before a KeyError
Partial == "partial"

NoAqhi ==
    [alive |-> FALSE, aqhi_id |-> <<(<<>>), (<<>>)>>,
     aqhi |-> [current |-> Missing, utc_time |-> Missing, forecasts |-> Missing]]

\* A mutant of fetch_new_observation: the whole snapshot is taken for
\* renewed, the forecasts with the observation.
fetch_new_observation_all(self, doc) ==
    LET s0 == [self EXCEPT !.aqhi.current = Age(@), !.aqhi.utc_time = Age(@),
                           !.aqhi.forecasts = Age(@)]
    IN  IF doc.kind = "error" THEN [raised |-> TRUE, self |-> s0]
        ELSE [raised |-> FALSE,
              self |-> [s0 EXCEPT !.aqhi.current = IF doc.index THEN Fresh ELSE None,
                                  !.aqhi.utc_time = IF doc.stamp THEN Fresh ELSE None]]

\* ECAQHI.fetch_new_observation
fetch_new_observation(self, doc) ==
    LET s0 == [self EXCEPT !.aqhi.current = Age(@), !.aqhi.utc_time = Age(@)]
    IN  IF doc.kind = "error" THEN [raised |-> TRUE, self |-> s0]
        ELSE [raised |-> FALSE,
              self |-> [s0 EXCEPT !.aqhi.current = IF doc.index THEN Fresh ELSE None,
                                  !.aqhi.utc_time = IF doc.stamp THEN Fresh ELSE None]]

\* ECAQHI.fetch_new_forecast
fetch_new_forecast(self, doc) ==
    LET s0 == [self EXCEPT !.aqhi.forecasts = Age(@)]
    IN  IF doc.kind = "error" THEN [raised |-> TRUE, self |-> s0]
        ELSE IF doc.kind = "badattr"
        THEN [raised |-> TRUE, self |-> [s0 EXCEPT !.aqhi.forecasts = Partial]]
        ELSE [raised |-> FALSE, self |-> [s0 EXCEPT !.aqhi.forecasts = Fresh]]

\* ECAQHI.__init__, up to the fetches: the region is the one given, with
\* the zone in lower and the region in upper case, or the closest one
AqhiResolve(aqhi_id, coordinates, pts) ==
    LET explicit == aqhi_id # <<None>>
        parts == str_split(aqhi_id)
        closest == IF coordinates = <<>> THEN Raise("TypeError")
                   ELSE ECAQHI_closest_aqhi(pts, coordinates[1], coordinates[2])
        known == [catalog_empty |-> ~explicit /\ coordinates # <<>> /\ Len(pts) = 0]
    IN  IF explicit
        THEN IF Len(parts) < 2 THEN [raised |-> TRUE, self |-> NoAqhi] @@ known
             ELSE [raised |-> FALSE,
                   self |-> [NoAqhi EXCEPT !.aqhi_id = <<str_lower(parts[1]),
                                                         str_upper(parts[2])>>]] @@ known
        ELSE IF closest.raised THEN [raised |-> TRUE, self |-> NoAqhi] @@ known
        ELSE [raised |-> FALSE, self |-> [NoAqhi EXCEPT !.aqhi_id = closest.value]] @@ known

AqhiResolved ==
    {AqhiResolve(aqhi_id, coordinates, pts) :
        aqhi_id \in AqhiIdArgs, coordinates \in CoordArgs, pts \in Loaded}

\* ECAQHI.__init__
NewECAQHI ==
    /\ cls = "ECAQHI" /\ pc = "idle"
    /\ \E r \in AqhiResolved, obs \in ObsDocs, fc \in FcDocs :
        LET did == [Did("__init__", "ECAQHI") EXCEPT !.catalog_empty = r.catalog_empty]
            got1 == fetch_new_observation(r.self, obs)
            got2 == fetch_new_forecast(got1.self, fc)
        IN  IF r.raised
            THEN /\ aqhi' = aqhi
                 /\ last' = [did EXCEPT !.raised = TRUE]
            ELSE IF got1.raised
            THEN /\ aqhi' = aqhi
                 /\ last' = [did EXCEPT !.raised = TRUE, !.failed = "observation",
                                        !.fetch = {"observation"}, !.docs_ok = FALSE]
            ELSE /\ aqhi' = IF got2.raised THEN aqhi
                            ELSE [got2.self EXCEPT !.alive = TRUE]
                 /\ last' = [did EXCEPT !.raised = got2.raised,
                                        !.failed = IF got2.raised THEN "forecast" ELSE "",
                                        !.fetch = {"observation", "forecast"},
                                        !.docs_ok = (fc.kind = "ok"),
                                        !.lacks = IF obs.index /\ obs.stamp
                                                  THEN "nothing" ELSE "aqhi"]
    /\ poll' = NoPoll
    /\ UNCHANGED <<cls, hydro, data, pc, limiter, now, rvars, xvars>>

\* ECAQHI.update, entering the Consumer block and drain_events(timeout=5)
AqhiUpdate ==
    /\ aqhi.alive /\ pc = "idle"
    /\ pc' = "listening"
    /\ poll' = NoPoll
    /\ last' = Did("update", "ECAQHI")
    /\ UNCHANGED <<cls, hydro, aqhi, data, limiter, now, rvars, xvars>>

\* the notifications the server publishes for this region's two files
AqhiNotifications(self) ==
    {Body(OBSERVATION_MESSAGE(self.aqhi_id[1], self.aqhi_id[2])),
     Body(FORECAST_MESSAGE(self.aqhi_id[1], self.aqhi_id[2]))}

\* A mutant of AqhiMatchesForecast: the forecast of any region of this
\* instance's zone is taken for its own.
AqhiMatchesForecastZone(self, body) ==
    \E r \in AqhiRegions : Contains(body, FORECAST_MESSAGE(self.aqhi_id[1], r))

\* the tests of ECAQHI.process_message
AqhiMatchesObservation(self, body) ==
    Contains(body, OBSERVATION_MESSAGE(self.aqhi_id[1], self.aqhi_id[2]))

AqhiMatchesForecast(self, body) ==
    Contains(body, FORECAST_MESSAGE(self.aqhi_id[1], self.aqhi_id[2]))

\* ECAQHI.process_message, the Consumer's callback (see HydroProcessMessage)
AqhiProcessMessage ==
    /\ aqhi.alive /\ pc \in {"listening", "cancelling"}
    /\ poll.msgs < MaxMsgs
    /\ \E body \in AqhiBodies, obs \in ObsDocs, fc \in FcDocs :
        LET did == [Did("process_message", "ECAQHI") EXCEPT !.body = body]
            own == IF body \in AqhiNotifications(aqhi) THEN 1 ELSE 0
        IN  IF AqhiMatchesObservation(aqhi, body)
            THEN LET got == fetch_new_observation(aqhi, obs)
                 IN  /\ aqhi' = got.self
                     /\ last' = [did EXCEPT !.raised = got.raised,
                                            !.failed = IF got.raised THEN "observation" ELSE "",
                                            !.fetch = {"observation"},
                                            !.docs_ok = (obs.kind = "ok"),
                                            !.lacks = IF obs.index /\ obs.stamp
                                                      THEN "nothing" ELSE "aqhi"]
                     /\ pc' = IF got.raised THEN "idle" ELSE "cancelling"
                     /\ poll' = [poll EXCEPT !.msgs = @ + 1, !.matched = @ + own,
                                             !.fetches.observation = @ + 1]
            ELSE IF AqhiMatchesForecast(aqhi, body)
            THEN LET got == fetch_new_forecast(aqhi, fc)
                 IN  /\ aqhi' = got.self
                     /\ last' = [did EXCEPT !.raised = got.raised,
                                            !.failed = IF got.raised THEN "forecast" ELSE "",
                                            !.fetch = {"forecast"},
                                            !.docs_ok = (fc.kind = "ok")]
                     /\ pc' = IF got.raised THEN "idle" ELSE "cancelling"
                     /\ poll' = [poll EXCEPT !.msgs = @ + 1, !.matched = @ + own,
                                             !.fetches.forecast = @ + 1]
            ELSE /\ aqhi' = aqhi
                 /\ last' = did
                 /\ pc' = "cancelling"
                 /\ poll' = [poll EXCEPT !.msgs = @ + 1, !.matched = @ + own]
    /\ UNCHANGED <<cls, hydro, data, limiter, now, rvars, xvars>>

\* ECAQHI.update: drain_events raises socket.timeout, which is passed over
AqhiUpdateTimeout ==
    /\ aqhi.alive /\ pc = "listening"
    /\ pc' = "idle"
    /\ last' = Did("update", "ECAQHI")
    /\ UNCHANGED <<cls, hydro, aqhi, data, poll, limiter, now, rvars, xvars>>

\* ECAQHI.update returns after the Consumer block
AqhiUpdateReturn ==
    /\ aqhi.alive /\ pc = "cancelling"
    /\ pc' = "idle"
    /\ last' = Did("update", "ECAQHI")
    /\ UNCHANGED <<cls, hydro, aqhi, data, poll, limiter, now, rvars, xvars>>

(***************************************************************************)
(* ECData.                                                                 *)
(***************************************************************************)
\* @limits(calls=2, period=60)
CALLS == 2
PERIOD == 60

\* The limiter of the ratelimit package, one per decorated function and so
\* one for every ECData: a call that comes PERIOD after the last reset
\* resets the count; the call is counted; it is refused when the count is
\* above CALLS.  Counts above CALLS + 1 are not told apart.
limits(lim, t) ==
    LET l1 == IF PERIOD - (t - lim.last_reset) <= 0
              THEN [num_calls |-> 0, last_reset |-> t] ELSE lim
        n == l1.num_calls + 1
    IN  [limiter |-> [l1 EXCEPT !.num_calls = IF n > CALLS THEN CALLS + 1 ELSE n],
         limited |-> n > CALLS]

\* an empty list, an empty string
Empty == "empty"
\* a conditions entry that holds a label and no value
NoValue == "novalue"

\* The elements of the weather document that update reads and that a
\* document may be without.
Lacks == {"nothing", "timestamp", "location", "station", "condition", "period",
          "summary", "forecast_time", "temperature"}

\* The weather document: the request or the parse fails ("error"), or it
\* parses and is without at most one of Lacks; it lists no alert, or it
\* lists alerts and the alert page is fetched ("listed") or cannot be
\* ("pagefail").
SiteDocs ==
    [kind : {"error"}, lacks : {"nothing"}, alerts : {"none"}]
    \cup [kind : {"ok"}, lacks : Lacks, alerts : {"none"}]
    \cup [kind : {"ok"}, lacks : {"nothing"}, alerts : {"listed", "pagefail"}]

\* The three documents of one update: at most one of them is not the plain
\* document.
PlainSite == [kind |-> "ok", lacks |-> "nothing", alerts |-> "none"]
PlainObs == [kind |-> "ok", index |-> TRUE, stamp |-> TRUE]
PlainFc == [kind |-> "ok"]
DataDocs ==
    {[site |-> d, obs |-> PlainObs, fc |-> PlainFc] : d \in SiteDocs}
    \cup {[site |-> PlainSite, obs |-> d, fc |-> PlainFc] : d \in ObsDocs}
    \cup {[site |-> PlainSite, obs |-> PlainObs, fc |-> d] : d \in FcDocs}

NoData ==
    [alive |-> FALSE, station_id |-> <<>>, aqhi_id |-> <<>>,
     metadata |-> [timestamp |-> Missing, location |-> Missing, station |-> Missing],
     conditions |-> [condition |-> Missing, text_summary |-> Missing,
                     air_quality |-> Missing],
     alerts |-> Missing, forecast_time |-> Empty,
     daily_forecasts |-> Empty, hourly_forecasts |-> Empty,
     aqhi |-> [current |-> Missing, utc_time |-> Missing, forecasts |-> Missing]]

\* the body of ECData.update, from the weather document to the forecasts
UpdateWeather(self, site) ==
    LET w0 == [self EXCEPT !.metadata.timestamp = Age(@), !.metadata.location = Age(@),
                           !.metadata.station = Age(@), !.conditions.condition = Age(@),
                           !.conditions.text_summary = Age(@), !.alerts = Age(@),
                           !.forecast_time = Age(@), !.daily_forecasts = Age(@),
                           !.hourly_forecasts = Age(@)]
        w1 == [w0 EXCEPT !.metadata.timestamp = Fresh]
        w2 == [w1 EXCEPT !.metadata.location = Fresh]
        w3 == [w2 EXCEPT !.metadata.station = Fresh]
        w4 == [w3 EXCEPT !.conditions.condition =
                             IF site.lacks = "condition" THEN NoValue ELSE Fresh]
        w5 == [w4 EXCEPT !.conditions.text_summary = Fresh]
        w6 == [w5 EXCEPT !.alerts = Empty]
        w7 == [w6 EXCEPT !.alerts = IF site.alerts = "none" THEN Empty ELSE Fresh]
        w8 == [w7 EXCEPT !.forecast_time =
                             IF site.lacks = "forecast_time" THEN None ELSE Fresh,
                         !.daily_forecasts = Empty, !.hourly_forecasts = Empty]
        w9 == [w8 EXCEPT !.daily_forecasts = Fresh, !.hourly_forecasts = Fresh]
    IN  IF site.kind = "error" THEN [raised |-> TRUE, self |-> w0]
        ELSE IF site.lacks = "timestamp" THEN [raised |-> TRUE, self |-> w0]
        ELSE IF site.lacks = "location" THEN [raised |-> TRUE, self |-> w1]
        ELSE IF site.lacks = "station" THEN [raised |-> TRUE, self |-> w2]
        ELSE IF site.lacks \in {"period", "summary"} THEN [raised |-> TRUE, self |-> w4]
        ELSE IF site.alerts = "pagefail" THEN [raised |-> TRUE, self |-> w6]
        ELSE IF site.lacks = "temperature" THEN [raised |-> TRUE, self |-> w8]
        ELSE [raised |-> FALSE, self |-> w9]

\* the body of ECData.update, the AQHI current condition
UpdateAqhiObservation(self, obs) ==
    LET a0 == [self EXCEPT !.aqhi.current = Age(@), !.aqhi.utc_time = Age(@),
                           !.conditions.air_quality = Age(@)]
        cur == IF obs.index THEN Fresh ELSE None
    IN  IF obs.kind = "error" THEN [raised |-> TRUE, self |-> a0]
        ELSE [raised |-> FALSE,
              self |-> [a0 EXCEPT !.aqhi.current = cur,
                                  !.conditions.air_quality = cur,
                                  !.aqhi.utc_time = IF obs.stamp THEN Fresh ELSE None]]

\* the body of ECData.update, the AQHI forecasts
UpdateAqhiForecast(self, fc) ==
    LET f0 == [self EXCEPT !.aqhi.forecasts = Age(@)]
    IN  IF fc.kind = "error" THEN [raised |-> TRUE, self |-> f0]
        ELSE IF fc.kind = "badattr"
        THEN [raised |-> TRUE, self |-> [f0 EXCEPT !.aqhi.forecasts = Partial]]
        ELSE [raised |-> FALSE, self |-> [f0 EXCEPT !.aqhi.forecasts = Fresh]]

\* what the three documents of one update are without
LacksOf(site, obs) ==
    IF site.lacks # "nothing" THEN site.lacks
    ELSE IF obs.kind = "ok" /\ ~(obs.index /\ obs.stamp) THEN "aqhi"
    ELSE "nothing"

\* whether the three documents are retrieved and parsed, the alert page
\* too, and no element is without an attribute that is indexed
DocsOk(site, obs, fc) ==
    site.kind = "ok" /\ site.alerts # "pagefail" /\ obs.kind = "ok" /\ fc.kind = "ok"

\* ECData.update with its decorators: limits raises RateLimitException
\* before the body runs, and ignore_ratelimit_error turns that into None.
ECData_update(self, lim, t, site, obs, fc) ==
    LET asked == limits(lim, t)
        w == UpdateWeather(self, site)
        a == UpdateAqhiObservation(w.self, obs)
        f == UpdateAqhiForecast(a.self, fc)
    IN  IF asked.limited
        THEN [raised |-> FALSE, failed |-> "", self |-> self, limiter |-> asked.limiter,
              fetch |-> {}]
        ELSE IF w.raised
        THEN [raised |-> TRUE, failed |-> "weather", self |-> w.self,
              limiter |-> asked.limiter, fetch |-> {"weather"}]
        ELSE IF a.raised
        THEN [raised |-> TRUE, failed |-> "observation", self |-> a.self,
              limiter |-> asked.limiter, fetch |-> {"weather", "observation"}]
        ELSE [raised |-> f.raised, failed |-> IF f.raised THEN "forecast" ELSE "",
              self |-> f.self, limiter |-> asked.limiter,
              fetch |-> {"weather", "observation", "forecast"}]

\* the station_id and aqhi_id arguments of ECData: None (written <<>>), or
\* the string that names the station and the region closest to CoordArgs
StationIdArgs == {<<>>, ProvAt(2) \o <<"/">> \o IdAt(2)}
DataAqhiIdArgs == {<<>>, ZoneAt(2) \o <<"/">> \o RegionAt(2)}

\* ECData.__init__, up to the call of update: the station and the region
\* are the ones given, or the closest ones
DataResolve(station_id, aqhi_id, coordinates, sites, regions) ==
    LET closest_s == IF coordinates = <<>> THEN Raise("TypeError")
                     ELSE ECData_closest_site(sites, coordinates[1], coordinates[2])
        closest_a == IF coordinates = <<>> THEN Raise("TypeError")
                     ELSE ECData_closest_aqhi(regions, coordinates[1], coordinates[2])
        sid == IF station_id # <<>> THEN Return(station_id) ELSE closest_s
        aid == IF aqhi_id # <<>> THEN Return(str_split(aqhi_id)) ELSE closest_a
        known == [catalog_empty |->
                      /\ coordinates # <<>>
                      /\ \/ station_id = <<>> /\ Len(sites) = 0
                         \/ aqhi_id = <<>> /\ Len(regions) = 0]
    IN  IF sid.raised \/ aid.raised THEN [raised |-> TRUE, self |-> NoData] @@ known
        ELSE [raised |-> FALSE,
              self |-> [NoData EXCEPT !.station_id = sid.value,
                                      !.aqhi_id = aid.value]] @@ known

DataResolved ==
    {DataResolve(station_id, aqhi_id, coordinates, sites, regions) :
        station_id \in StationIdArgs, aqhi_id \in DataAqhiIdArgs,
        coordinates \in CoordArgs, sites \in Loaded, regions \in Loaded}

\* ECData.__init__
NewECData ==
    /\ cls = "ECData"
    /\ \E r \in DataResolved, docs \in DataDocs :
        LET site == docs.site
            obs == docs.obs
            fc == docs.fc
            did == [Did("__init__", "ECData") EXCEPT !.catalog_empty = r.catalog_empty]
            got == ECData_update(r.self, limiter, now, site, obs, fc)
        IN  IF r.raised
            THEN /\ data' = data
                 /\ limiter' = limiter
                 /\ last' = [did EXCEPT !.raised = TRUE]
            ELSE /\ data' = IF got.raised THEN data
                            ELSE [got.self EXCEPT !.alive = TRUE]
                 /\ limiter' = got.limiter
                 /\ last' = [did EXCEPT !.raised = got.raised, !.failed = got.failed,
                                        !.fetch = got.fetch,
                                        !.lacks = LacksOf(site, obs),
                                        !.docs_ok = DocsOk(site, obs, fc)]
    /\ UNCHANGED <<cls, hydro, aqhi, pc, poll, now, rvars, xvars>>

\* a call of ECData.update on the instance
DataUpdate ==
    /\ cls = "ECData" /\ data.alive
    /\ \E docs \in DataDocs :
        LET site == docs.site
            obs == docs.obs
            fc == docs.fc
            got == ECData_update(data, limiter, now, site, obs, fc)
        IN  /\ data' = got.self
            /\ limiter' = got.limiter
            /\ last' = [Did("update", "ECData") EXCEPT
                           !.raised = got.raised, !.failed = got.failed,
                           !.fetch = got.fetch,
                           !.lacks = LacksOf(site, obs),
                           !.docs_ok = DocsOk(site, obs, fc)]
    /\ UNCHANGED <<cls, hydro, aqhi, pc, poll, now, rvars, xvars>>

(***************************************************************************)
(* The calls of ECData.update in time: every ECData of the process calls   *)
(* the one decorated function, and so asks the one limiter.                *)
(***************************************************************************)
LIdle == fetched = <<>>

\* the times of the latest CALLS + 1 fetches, after a call at time t that
\* has requested the sub-feeds in fetch
Fetched(times, fetch, t) ==
    LET all == IF fetch = {} THEN times ELSE Append(times, t)
    IN  IF Len(all) > CALLS + 1 THEN Tail(all) ELSE all

\* ECData(station_id=..., aqhi_id=...): the constructor calls update
LimiterNewECData ==
    /\ \E r \in DataResolved, docs \in DataDocs :
        LET got == ECData_update(r.self, limiter, now, docs.site, docs.obs, docs.fc)
        IN  /\ ~r.raised
            /\ data' = IF got.raised THEN data ELSE [got.self EXCEPT !.alive = TRUE]
            /\ limiter' = got.limiter
            /\ last' = [Did("__init__", "ECData") EXCEPT
                           !.raised = got.raised, !.failed = got.failed,
                           !.fetch = got.fetch,
                           !.lacks = LacksOf(docs.site, docs.obs),
                           !.docs_ok = DocsOk(docs.site, docs.obs, docs.fc)]
            /\ fetched' = Fetched(fetched, got.fetch, now)
    /\ UNCHANGED <<cls, hydro, aqhi, pc, poll, now, notl>>

\* ECData.update on the instance
LimiterUpdate ==
    /\ data.alive
    /\ \E docs \in DataDocs :
        LET got == ECData_update(data, limiter, now, docs.site, docs.obs, docs.fc)
        IN  /\ data' = got.self
            /\ limiter' = got.limiter
            /\ last' = [Did("update", "ECData") EXCEPT
                           !.raised = got.raised, !.failed = got.failed,
                           !.fetch = got.fetch,
                           !.lacks = LacksOf(docs.site, docs.obs),
                           !.docs_ok = DocsOk(docs.site, docs.obs, docs.fc)]
            /\ fetched' = Fetched(fetched, got.fetch, now)
    /\ UNCHANGED <<cls, hydro, aqhi, pc, poll, now, notl>>

\* time passes
LimiterTick ==
    /\ now + TickStep <= MaxTime
    /\ now' = now + TickStep
    /\ UNCHANGED <<cls, hydro, aqhi, data, pc, poll, last, limiter, fetched, notl>>

(***************************************************************************)
(* The subscription queues.  HYDRO_QUEUE_NAME and AQHI_QUEUE_NAME are       *)
(* assigned when the module is imported, once in a process; every instance *)
(* made in the process names its Queue by that value.  The broker keeps    *)
(* one queue per name and hands each message of a queue to one consumer.   *)
(***************************************************************************)
Procs == 1..MaxProcs
\* random.randrange(100000), on a smaller range
Suffixes == 0..(MaxSuffix - 1)
\* 'q_anonymous_env-canada-pypi_' + str(random.randrange(100000))
HYDRO_QUEUE_NAME(suffix) == <<"q_anonymous_env-canada-pypi_", suffix>>

\* the stations of one province that notifications are published for
QueueStations == {IdAt(1), IdAt(2)}

\* a queue the broker does not hold
NoQueue == [declared |-> FALSE, msgs |-> <<>>]

QIdle ==
    /\ names = [p \in Procs |-> 0]
    /\ insts = <<>>
    /\ queues = [n \in Suffixes |-> NoQueue]

\* ECHydro.__init__ in process p, for a station: the Queue object is named
\* by the module's constant; nothing is declared on the broker yet.  owed
\* counts the notifications of the station published since the instance's
\* queue is declared, fetches the fetches its callback has made.
QueueNewInstance ==
    /\ Len(insts) < MaxInsts
    /\ \E p \in Procs, st \in QueueStations :
        insts' = Append(insts, [proc |-> p, queue |-> HYDRO_QUEUE_NAME(names[p]),
                                station |-> st, owed |-> 0, fetches |-> 0])
    /\ UNCHANGED <<names, queues, notq>>

\* the server publishes the notification of a station's file: the exchange
\* puts one copy on every declared queue (all are bound to the province)
QueuePublish ==
    /\ \A n \in Suffixes : Len(queues[n].msgs) < MaxPublished
    /\ \A i \in 1..Len(insts) : insts[i].owed < MaxPublished
    /\ \E st \in QueueStations :
        /\ queues' = [n \in Suffixes |->
                         IF queues[n].declared
                         THEN [queues[n] EXCEPT !.msgs = Append(@, st)]
                         ELSE queues[n]]
        /\ insts' = [i \in 1..Len(insts) |->
                        IF insts[i].station = st /\ queues[insts[i].queue[2]].declared
                        THEN [insts[i] EXCEPT !.owed = @ + 1]
                        ELSE insts[i]]
    /\ UNCHANGED <<names, notq>>

\* update() of the i-th instance: the Consumer declares the queue of that
\* name and consumes from it; drain_events hands the first message of the
\* queue, if there is one, to process_message, which fetches when the
\* message is of the instance's station
QueueUpdate ==
    /\ \E i \in 1..Len(insts) :
        LET n == insts[i].queue[2]
            q == queues[n]
        IN  IF ~q.declared
            THEN /\ queues' = [queues EXCEPT ![n].declared = TRUE]
                 /\ insts' = insts
            ELSE IF Len(q.msgs) = 0
            THEN /\ queues' = queues
                 /\ insts' = insts
            ELSE /\ queues' = [queues EXCEPT ![n].msgs = Tail(@)]
                 /\ insts' = [insts EXCEPT ![i].fetches =
                                 IF Head(q.msgs) = insts[i].station THEN @ + 1 ELSE @]
    /\ UNCHANGED <<names, notq>>

(***************************************************************************)
(* The alerts of ECData.update.  A title is a sequence of words; a pattern *)
(* of alerts_meta is searched for in it.                                   *)
(***************************************************************************)
Languages == {"english", "french"}
\* the keys of alerts_meta
Categories == {"warnings", "watches", "advisories", "statements", "endings"}

\* the words titles are made of: the words of the patterns, a word that
\* is in no pattern, and a word that holds the word of the endings pattern
\* without being it
TitleWords(lang) ==
    IF lang = "english"
    THEN {"WIND", "WARNING", "WATCH", "ADVISORY", "STATEMENT", "ENDED", "EXTENDED"}
    ELSE {"NEIGE", "ALERTE", "AVERTISSEMENT", "VEILLE", "AVIS", "BULLETIN",
          "TERMINÉ", "TERMINÉE"}

\* the letters of key occur in word
Occurs(key, word) ==
    \/ key = word
    \/ key = "ENDED" /\ word = "EXTENDED"
    \/ key = "TERMINÉ" /\ word = "TERMINÉE"

\* alerts_meta[category][lang]['pattern']: '.*KEY((?!END).)*$' is written
\* by the words KEY stands for and the word END; '.*END' by END alone
alerts_meta(category, lang) ==
    LET end == IF lang = "english" THEN "ENDED" ELSE "TERMINÉ"
        keys == CASE category = "warnings" ->
                        IF lang = "english" THEN {"WARNING"}
                        ELSE {"ALERTE", "AVERTISSEMENT"}
                  [] category = "watches" ->
                        IF lang = "english" THEN {"WATCH"} ELSE {"VEILLE"}
                  [] category = "advisories" ->
                        IF lang = "english" THEN {"ADVISORY"} ELSE {"AVIS"}
                  [] category = "statements" ->
                        IF lang = "english" THEN {"STATEMENT"} ELSE {"BULLETIN"}
                  [] OTHER -> {end}
    IN  [active |-> category # "endings", keys |-> keys, end |-> end]

\* re.search(pattern, title): '.*KEY((?!END).)*$' matches when some KEY is
\* followed by no END up to the end of the title; '.*END' when END occurs
re_search(pattern, title) ==
    \E i \in 1..Len(title) :
        /\ \E k \in pattern.keys : Occurs(k, title[i])
        /\ pattern.active => \A j \in (i + 1)..Len(title) : ~Occurs(pattern.end, title[j])

\* The loops of update over alert_list and alerts_meta: a title is
\* appended to the value of every category whose pattern is found in it.
UpdateAlerts(list, lang) ==
    [c \in Categories |->
        SelectSeq(list, LAMBDA title : re_search(alerts_meta(c, lang), title))]

Titles(lang) == UNION {[1..n -> TitleWords(lang)] : n \in 1..MaxTitle}
AlertLists(lang) == SeqsUpTo(Titles(lang), MaxAlerts)

NoAlerts == [c \in Categories |-> <<>>]

AIdle ==
    /\ language = "english"
    /\ alert_list = <<>>
    /\ alerts = NoAlerts

\* the part of ECData.update that fills self.alerts
AlertsUpdate ==
    /\ alerts' = UpdateAlerts(alert_list, language)
    /\ UNCHANGED <<language, alert_list, nota>>

(***************************************************************************)
(* The remote calls of the operations, with the timeout each is given.     *)
(***************************************************************************)
REQUEST_TIMEOUT == 10
DRAIN_TIMEOUT == 5

\* requests.get(url, timeout=10)
Request(name) == [name |-> name, timed |-> TRUE, timeout |-> REQUEST_TIMEOUT]
\* requests.get(url=alert_url): no timeout is given, and requests waits
\* without limit then
AlertRequest == [name |-> "alert_page", timed |-> FALSE, timeout |-> 0]
\* connection.drain_events(timeout=5)
DrainEvents == [name |-> "drain_events", timed |-> TRUE, timeout |-> DRAIN_TIMEOUT]

\* the calls of ECData.update, of a document with or without events
DataUpdateCalls ==
    {<<Request("weather")>> \o page \o <<Request("observation"), Request("forecast")>> :
        page \in {<<>>, <<AlertRequest>>}}

\* the operations and the sequences of calls each can make
Operations ==
    {[op |-> "ECHydro.__init__", calls |-> c] :
        c \in {<<Request("readings")>>,
               <<Request("site_list"), Request("readings")>>}}
    \cup {[op |-> "ECHydro.update", calls |-> c] :
        c \in {<<DrainEvents>>, <<DrainEvents, Request("readings")>>}}
    \cup {[op |-> "ECAQHI.__init__", calls |-> c] :
        c \in {<<Request("observation"), Request("forecast")>>,
               <<Request("region_list"), Request("observation"), Request("forecast")>>}}
    \cup {[op |-> "ECAQHI.update", calls |-> c] :
        c \in {<<DrainEvents>>, <<DrainEvents, Request("observation")>>,
               <<DrainEvents, Request("forecast")>>}}
    \cup {[op |-> "ECData.__init__", calls |-> sites \o aq \o c] :
        sites \in {<<>>, <<Request("site_list")>>},
        aq \in {<<>>, <<Request("region_list")>>},
        c \in DataUpdateCalls}
    \cup {[op |-> "ECData.update", calls |-> c] : c \in DataUpdateCalls}

CIdle ==
    /\ running = "none"
    /\ todo = <<>>
    /\ waited = 0
    /\ outcome = "none"

\* an operation is called and makes its first remote call
CallBegin ==
    /\ running = "none"
    /\ \E o \in Operations :
        /\ running' = o.op
        /\ todo' = o.calls
    /\ waited' = 0
    /\ outcome' = "none"
    /\ UNCHANGED notc

\* the peer answers the call in progress; the next call begins
CallAnswer ==
    /\ todo # <<>>
    /\ todo' = Tail(todo)
    /\ waited' = 0
    /\ UNCHANGED <<running, outcome, notc>>

\* a time unit passes and the peer has not answered
CallWait ==
    /\ todo # <<>>
    /\ waited < MaxWait
    /\ Head(todo).timed => waited < Head(todo).timeout
    /\ waited' = waited + 1
    /\ UNCHANGED <<running, todo, outcome, notc>>

\* the timeout of the call in progress has passed: drain_events raises
\* socket.timeout, which update catches; requests.get raises, and the
\* operation ends with that error
CallTimeout ==
    /\ todo # <<>>
    /\ Head(todo).timed
    /\ waited = Head(todo).timeout
    /\ todo' = <<>>
    /\ waited' = 0
    /\ outcome' = IF Head(todo).name = "drain_events" THEN "return" ELSE "error"
    /\ UNCHANGED <<running, notc>>

\* the operation returns to its caller
CallReturn ==
    /\ running # "none"
    /\ todo = <<>>
    /\ running' = "none"
    /\ outcome' = IF outcome = "none" THEN "return" ELSE outcome
    /\ UNCHANGED <<todo, waited, notc>>

(***************************************************************************)
(* CacheClientSession.  _cache is an attribute of the class: one dict for  *)
(* every session of the process.                                           *)
(***************************************************************************)
\* timedelta(minutes=200)
CACHE_EXPIRE_TIME == 200

Urls == {"layer", "legend"}
\* the items of params
ItemA == <<"a", "1">>
ItemB == <<"b", "1">>
\* params: a dict, written by its items in the order of insertion
ParamsArgs == {<<ItemA, ItemB>>, <<ItemB, ItemA>>, <<ItemA>>}
\* cache_time: the default, or none at all
CacheTimes == {CACHE_EXPIRE_TIME, 0}

\* x < y of two items: tuples compare by their first elements, the names,
\* which differ within a dict; strings compare by their letters
item_less(x, y) ==
    LET letters == <<"a", "b">>
        rank(n) == CHOOSE i \in 1..Len(letters) : letters[i] = n
    IN  rank(x[1]) < rank(y[1])

\* sorted(items)
RECURSIVE sorted(_)
sorted(items) ==
    IF items = <<>> THEN <<>>
    ELSE LET m == CHOOSE i \in 1..Len(items) :
                      \A j \in 1..Len(items) : j # i => item_less(items[i], items[j])
         IN  <<items[m]>> \o sorted(SubSeq(items, 1, m - 1) \o SubSeq(items, m + 1, Len(items)))

\* A mutant of cache_key: the items are taken in the order of insertion.
cache_key_unsorted(url, params) == <<url, params>>

\* cache_key = (url, tuple(sorted(params.items())))
cache_key(url, params) == <<url, sorted(params)>>

\* the tuples a dict may hold as keys
CacheKeys == {<<u, p>> : u \in Urls, p \in ParamsArgs}
\* no entry; otherwise (expiry, response), the response being named by
\* the number of the request that it answers
NoEntry == [held |-> FALSE, expiry |-> 0, response |-> 0]

\* _flush_cache: the entries whose expiry is before now are deleted
flush_cache(c, t) ==
    [k \in CacheKeys |-> IF c[k].held /\ c[k].expiry < t THEN NoEntry ELSE c[k]]

NoGet == [kind |-> "none", url |-> "", params |-> <<>>, at |-> 0,
          expiry |-> 0, response |-> 0]

KIdle ==
    /\ cache = [k \in CacheKeys |-> NoEntry]
    /\ clock = 0
    /\ inflight = {}
    /\ issued = 0
    /\ served = NoGet

\* get, up to the await or, when the entry is found, to the return: the
\* cache is flushed and the key looked up; when no entry is found the
\* expiry is computed and the request is made
CacheGet ==
    /\ \E url \in Urls, params \in ParamsArgs, cache_time \in CacheTimes :
        LET flushed == flush_cache(cache, clock)
            key == cache_key(url, params)
            result == flushed[key]
            call == [NoGet EXCEPT !.url = url, !.params = params, !.at = clock]
        IN  IF result.held
            THEN /\ cache' = flushed
                 /\ served' = [call EXCEPT !.kind = "hit", !.expiry = result.expiry,
                                        !.response = result.response]
                 /\ UNCHANGED <<inflight, issued>>
            ELSE /\ issued < MaxRequests
                 /\ cache' = flushed
                 /\ issued' = issued + 1
                 /\ inflight' = inflight \cup
                        {[key |-> key, at |-> clock, expiry |-> clock + cache_time,
                          response |-> issued + 1]}
                 /\ served' = [call EXCEPT !.kind = "miss", !.expiry = clock + cache_time,
                                        !.response = issued + 1]
    /\ UNCHANGED <<clock, notk>>

\* get, from the await to the return: the response has come, the tuple
\* is stored under the key and the response returned
CacheGetReturn ==
    /\ \E r \in inflight :
        /\ inflight' = inflight \ {r}
        /\ cache' = [cache EXCEPT ![r.key] =
                        [held |-> TRUE, expiry |-> r.expiry, response |-> r.response]]
        /\ served' = [kind |-> "stored", url |-> r.key[1], params |-> r.key[2],
                   at |-> r.at, expiry |-> r.expiry, response |-> r.response]
    /\ UNCHANGED <<clock, issued, notk>>

\* get, from the await: the request raises, nothing is stored
CacheGetRaise ==
    /\ \E r \in inflight :
        /\ inflight' = inflight \ {r}
        /\ served' = [kind |-> "raised", url |-> r.key[1], params |-> r.key[2],
                   at |-> r.at, expiry |-> r.expiry, response |-> r.response]
    /\ UNCHANGED <<cache, clock, issued, notk>>

\* time passes
CacheTick ==
    /\ clock + ClockStep <= MaxClock
    /\ clock' = clock + ClockStep
    /\ UNCHANGED <<cache, inflight, issued, served, notk>>

(***************************************************************************)
(* The program around the instance.  The three classes share no state, so  *)
(* a behaviour follows the instances of one class, cls; a constructor may  *)
(* run again, and its instance then takes the place of the one before.     *)
(* The clock is read by the limiter of ECData.update alone.                *)
(***************************************************************************)
Classes == {"ECHydro", "ECAQHI", "ECData"}

\* time passes
Tick ==
    /\ cls = "ECData"
    /\ now + TickStep <= MaxTime
    /\ now' = now + TickStep
    /\ UNCHANGED <<cls, hydro, aqhi, data, pc, poll, last, limiter, rvars, xvars>>

MInit ==
    /\ hydro = NoHydro /\ aqhi = NoAqhi /\ data = NoData
    /\ pc = "idle"
    /\ poll = NoPoll
    /\ last = Did("none", "")
    /\ limiter = [num_calls |-> 0, last_reset |-> 0]
    /\ now = 0

\* the variables of the other specifications at rest
XIdle == QIdle /\ AIdle /\ CIdle /\ LIdle /\ KIdle

Init ==
    /\ cls \in Classes
    /\ MInit
    /\ catalog = <<>> /\ target = <<0, 0>> /\ res = NoCall
    /\ XIdle

Next ==
    \/ NewECHydro
    \/ HydroUpdate
    \/ HydroProcessMessage
    \/ HydroUpdateTimeout
    \/ HydroUpdateReturn
    \/ NewECAQHI
    \/ AqhiUpdate
    \/ AqhiProcessMessage
    \/ AqhiUpdateTimeout
    \/ AqhiUpdateReturn
    \/ NewECData
    \/ DataUpdate
    \/ Tick

Spec == Init /\ [][Next]_vars

RInit ==
    /\ catalog \in Catalogs
    /\ target \in Targets
    /\ res = NoCall
    /\ cls = "none"
    /\ MInit
    /\ XIdle

RNext ==
    \/ HydroClosestSite
    \/ DataClosestSite
    \/ DataClosestAqhi
    \/ AqhiClosestAqhi

SpecResolver == RInit /\ [][RNext]_vars

\* the processes have imported the module: each has drawn its suffix
QInit ==
    /\ names \in [Procs -> Suffixes]
    /\ insts = <<>>
    /\ queues = [n \in Suffixes |-> NoQueue]
    /\ cls = "none" /\ MInit
    /\ catalog = <<>> /\ target = <<0, 0>> /\ res = NoCall
    /\ AIdle /\ CIdle /\ LIdle /\ KIdle

QNext ==
    \/ QueueNewInstance
    \/ QueuePublish
    \/ QueueUpdate

SpecQueue == QInit /\ [][QNext]_vars

\* a weather document with its events has been retrieved
AInit ==
    /\ language \in Languages
    /\ alert_list \in AlertLists(language)
    /\ alerts = NoAlerts
    /\ cls = "none" /\ MInit
    /\ catalog = <<>> /\ target = <<0, 0>> /\ res = NoCall
    /\ QIdle /\ CIdle /\ LIdle /\ KIdle

ANext == AlertsUpdate

SpecAlerts == AInit /\ [][ANext]_vars

\* no operation is in progress
CInit ==
    /\ CIdle
    /\ cls = "none" /\ MInit
    /\ catalog = <<>> /\ target = <<0, 0>> /\ res = NoCall
    /\ QIdle /\ AIdle /\ LIdle /\ KIdle

CNext ==
    \/ CallBegin
    \/ CallAnswer
    \/ CallWait
    \/ CallTimeout
    \/ CallReturn

SpecCalls == CInit /\ [][CNext]_vars

\* the process has imported ec_data and has made no ECData yet
LInit ==
    /\ cls = "ECData" /\ MInit
    /\ catalog = <<>> /\ target = <<0, 0>> /\ res = NoCall
    /\ QIdle /\ AIdle /\ CIdle /\ LIdle /\ KIdle

LNext ==
    \/ LimiterNewECData
    \/ LimiterUpdate
    \/ LimiterTick

SpecLimiter == LInit /\ [][LNext]_vars

\* the process has imported ec_cache: the dict is empty
KInit ==
    /\ KIdle
    /\ cls = "none" /\ MInit
    /\ catalog = <<>> /\ target = <<0, 0>> /\ res = NoCall
    /\ QIdle /\ AIdle /\ CIdle /\ LIdle

KNext ==
    \/ CacheGet
    \/ CacheGetReturn
    \/ CacheGetRaise
    \/ CacheTick

SpecCache == KInit /\ [][KNext]_vars

(***************************************************************************)
(* Properties of the resolvers (SpecResolver).                             *)
(***************************************************************************)
\* the site list the last call has scanned
Scanned ==
    IF res.fn = "ECHydro.closest_site" THEN get_hydro_sites(catalog)
    ELSE IF res.fn = "ECData.closest_site" THEN get_ec_sites(catalog)
    ELSE get_aqhi_regions(catalog)

\* the last call has returned the i-th record of the list it scanned
Chose(i) ==
    IF res.fn = "ECHydro.closest_site" THEN res.out.value = Scanned[i]
    ELSE IF res.fn = "ECData.closest_site"
    THEN res.out.value = Scanned[i].ProvinceCodes \o <<"/">> \o Scanned[i].Codes
    ELSE res.out.value = <<Scanned[i].abbreviation, Scanned[i].cgndb>>

\* the distance of the i-th scanned record to the target
DistanceAt(i) == site_distance(target[1], target[2], Scanned[i])

\* the records at the least distance
Nearest ==
    {i \in 1..Len(Scanned) : \A j \in 1..Len(Scanned) : DistanceAt(i) <= DistanceAt(j)}

\* C1: on a non-empty catalog, the record a resolver returns is at a
\* distance to the target that is less than or equal to the distance of
\* every record of the catalog.
C1_ReturnsNearest ==
    (res.fn # "none" /\ Len(Scanned) > 0) =>
        /\ ~res.out.raised
        /\ \E i \in 1..Len(Scanned) :
               /\ Chose(i)
               /\ \A j \in 1..Len(Scanned) : DistanceAt(i) <= DistanceAt(j)

\* a resolver has returned a record that is not the first of a catalog in
\* which other records are farther away
C1_Witness ==
    /\ res.fn = "ECData.closest_site" /\ ~res.out.raised
    /\ Len(Scanned) >= 3
    /\ \E i \in 2..Len(Scanned) :
           /\ Chose(i)
           /\ \E j \in 1..Len(Scanned) : DistanceAt(j) > DistanceAt(i)

\* C2: when several records are at the least distance, the resolver
\* returns the one of them that comes first in the catalog.
C2_TieFirstInCatalogOrder ==
    (res.fn # "none" /\ Cardinality(Nearest) >= 2) =>
        /\ ~res.out.raised
        /\ \E i \in Nearest :
               /\ Chose(i)
               /\ \A j \in Nearest : i <= j

\* a resolver has returned from a catalog in which two records of
\* different places are at the least distance, and a farther one precedes
\* them
C2_Witness ==
    /\ res.fn = "ECAQHI.closest_aqhi" /\ ~res.out.raised
    /\ \E i, j \in Nearest :
           /\ i < j /\ catalog[i] # catalog[j]
           /\ 1 \notin Nearest
           /\ Chose(i)

(***************************************************************************)
(* Properties of the life cycle (Spec).                                    *)
(***************************************************************************)
\* the values an instance holds, by sub-feed
HydroValues(self) ==
    {self.measurements.water_level, self.measurements.discharge, self.timestamp}

ObservationValues(self) == {self.aqhi.current, self.aqhi.utc_time}

WeatherValues(self) ==
    {self.metadata.timestamp, self.metadata.location, self.metadata.station,
     self.conditions.condition, self.conditions.text_summary, self.alerts,
     self.forecast_time, self.daily_forecasts, self.hourly_forecasts}

\* the sub-feeds a construction of the class fetches
FeedsOf(class) ==
    IF class = "ECHydro" THEN {"data"}
    ELSE IF class = "ECAQHI" THEN {"observation", "forecast"}
    ELSE {"weather", "observation", "forecast"}

\* C3: a delivered message whose body contains the path formatted from the
\* instance's own identifiers triggers a fetch (of the sub-feed the path
\* names); the notification built from the same identifiers with the same
\* template is such a body; the notification of the file of another
\* station or region triggers no fetch.
C3_OwnPathFetchesOtherPathDoesNot ==
    (last.op = "process_message") =>
        IF last.cls = "ECHydro"
        THEN /\ Contains(last.body, HYDRO_MESSAGE(hydro.province, hydro.station))
                    => last.fetch = {"data"}
             /\ last.body = Body(HYDRO_MESSAGE(hydro.province, hydro.station))
                    => last.fetch = {"data"}
             /\ \A p \in HydroProvs, s \in HydroStations :
                    (/\ <<p, s>> # <<hydro.province, hydro.station>>
                     /\ last.body = Body(HYDRO_MESSAGE(p, s)))
                    => last.fetch = {}
        ELSE /\ Contains(last.body, OBSERVATION_MESSAGE(aqhi.aqhi_id[1], aqhi.aqhi_id[2]))
                    => last.fetch = {"observation"}
             /\ Contains(last.body, FORECAST_MESSAGE(aqhi.aqhi_id[1], aqhi.aqhi_id[2]))
                    => last.fetch = {"forecast"}
             /\ last.body = Body(OBSERVATION_MESSAGE(aqhi.aqhi_id[1], aqhi.aqhi_id[2]))
                    => last.fetch = {"observation"}
             /\ last.body = Body(FORECAST_MESSAGE(aqhi.aqhi_id[1], aqhi.aqhi_id[2]))
                    => last.fetch = {"forecast"}
             /\ \A z \in AqhiZones, r \in AqhiRegions :
                    (/\ <<z, r>> # aqhi.aqhi_id
                     /\ last.body \in {Body(OBSERVATION_MESSAGE(z, r)),
                                       Body(FORECAST_MESSAGE(z, r))})
                    => last.fetch = {}

\* the callback has been given the notification of this station's file,
\* the station's identifier being a prefix of another station's, and has
\* fetched
C3_Witness ==
    /\ last.op = "process_message" /\ last.cls = "ECHydro"
    /\ hydro.station = IdAt(1)
    /\ last.body = Body(HYDRO_MESSAGE(hydro.province, hydro.station))
    /\ last.fetch = {"data"}

\* C4 (as stated): within one poll no sub-feed is fetched more than once.
\* Refuted: the callback fetches for every matching delivery.
C4_OneFetchPerPoll ==
    \A f \in {"data", "observation", "forecast"} : poll.fetches[f] <= 1

\* C5: as long as a poll has been given no message that notifies a file of
\* the instance, its steps leave the snapshot as it was, fetch nothing and
\* raise nothing; and when it ends, by the timeout or after such messages,
\* update has returned and the instance is idle again, where update can be
\* called.
C5_QuietPollChangesNothing ==
    [][/\ (pc = "idle" /\ pc' = "listening") => (hydro' = hydro /\ aqhi' = aqhi)
       /\ (pc # "idle" /\ poll'.matched = 0) =>
              /\ hydro' = hydro /\ aqhi' = aqhi
              /\ ~last'.raised /\ last'.fetch = {}
              /\ poll'.fetches = NoPoll.fetches
              /\ (pc' = "idle") =>
                     /\ last'.op = "update"
                     /\ hydro'.alive \/ aqhi'.alive]_vars

\* a poll of an instance that holds values has ended after a message of
\* another region
C5_Witness ==
    /\ cls = "ECAQHI" /\ pc = "idle" /\ last.op = "update"
    /\ poll.msgs >= 1 /\ poll.matched = 0
    /\ aqhi.aqhi.forecasts = Fresh

\* C6 (as stated): a construction that returns has fetched every sub-feed
\* of its class.  Refuted: the third construction of an ECData within the
\* period of the limiter returns without a fetch.
C6_ConstructionFetches ==
    (last.op = "__init__" /\ ~last.raised) => last.fetch = FeedsOf(last.cls)

\* C7 (as stated): after a fetch that failed, the sub-feed holds no value
\* of the failed fetch.  Refuted: the values stored before the failing
\* statement stay.
C7_FailedFetchLeavesNothing ==
    (last.raised /\ last.op # "__init__" /\ last.failed # "") =>
        IF last.cls = "ECHydro" THEN Fresh \notin HydroValues(hydro)
        ELSE IF last.cls = "ECAQHI"
        THEN IF last.failed = "observation" THEN Fresh \notin ObservationValues(aqhi)
             ELSE aqhi.aqhi.forecasts \notin {Fresh, Partial}
        ELSE IF last.failed = "weather" THEN Fresh \notin WeatherValues(data)
        ELSE IF last.failed = "observation" THEN Fresh \notin ObservationValues(data)
        ELSE data.aqhi.forecasts \notin {Fresh, Partial}

\* the group holds a value of the latest fetch beside one of an earlier fetch
Mixed(values) == Fresh \in values /\ Stale \in values

\* C8 (as stated): after a fetch that succeeded, no value of an earlier
\* fetch remains in the fetched group beside the new ones.  Refuted: ECHydro
\* keeps the water level or the discharge of an earlier row, beside the new
\* timestamp, when the cell of the new row is empty.
C8_SnapshotReplaced ==
    (~last.raised /\ last.fetch # {}) =>
        IF last.cls = "ECHydro" THEN ~Mixed(HydroValues(hydro))
        ELSE IF last.cls = "ECAQHI"
        THEN /\ "observation" \in last.fetch => ~Mixed(ObservationValues(aqhi))
             /\ "forecast" \in last.fetch => aqhi.aqhi.forecasts # Stale
        ELSE /\ ~Mixed(WeatherValues(data))
             /\ ~Mixed(ObservationValues(data))
             /\ data.aqhi.forecasts # Stale

\* C9 (as stated): when the documents parse and one of them is without an
\* element that is read, the fetch does not raise and the field of that
\* element holds the mark of absence.  Refuted: ECData.update raises when
\* the weather document is without a metadata element.
C9_MissingElementIsAbsent ==
    (last.docs_ok /\ last.lacks # "nothing" /\ last.fetch # {}) =>
        /\ ~last.raised
        /\ (last.lacks = "aqhi" /\ last.cls = "ECAQHI") => None \in ObservationValues(aqhi)
        /\ (last.lacks = "aqhi" /\ last.cls = "ECData") => None \in ObservationValues(data)
        /\ (last.lacks = "timestamp") => data.metadata.timestamp = None
        /\ (last.lacks = "location") => data.metadata.location = None
        /\ (last.lacks = "station") => data.metadata.station = None
        /\ (last.lacks = "condition") => data.conditions.condition = NoValue
        /\ (last.lacks \in {"period", "summary"}) => data.conditions.text_summary = None
        /\ (last.lacks = "forecast_time") => data.forecast_time = None

\* C10: a construction without an explicit station (or region) that finds
\* the catalog empty raises, fetches nothing, and leaves no instance: the
\* instances and the limiter are as they were.
C10_EmptyCatalogFails ==
    [][(last'.op = "__init__" /\ last'.catalog_empty) =>
           /\ last'.raised /\ last'.fetch = {}
           /\ hydro' = hydro /\ aqhi' = aqhi /\ data' = data
           /\ limiter' = limiter]_vars

\* a constructor of ECHydro has been given coordinates and no station and
\* has found the catalog empty
C10_Witness ==
    /\ last.op = "__init__" /\ last.cls = "ECHydro"
    /\ last.catalog_empty /\ last.raised

\* C14: ECAQHI.process_message refreshes the two field groups apart.  A
\* message in which the observation path of the region occurs leaves
\* aqhi["forecasts"] as it was; one in which only the forecast path occurs
\* leaves aqhi["current"] and aqhi["utc_time"] as they were; one in which
\* neither occurs leaves the whole instance as it was.  The region and
\* the instances of the other classes are never touched.
C14_GroupsRefreshedIndependently ==
    [][(cls = "ECAQHI" /\ poll'.msgs = poll.msgs + 1) =>
          /\ aqhi'.aqhi_id = aqhi.aqhi_id /\ aqhi'.alive = aqhi.alive
          /\ hydro' = hydro /\ data' = data
          /\ AqhiMatchesObservation(aqhi, last'.body) =>
                 /\ aqhi'.aqhi.forecasts = aqhi.aqhi.forecasts
                 /\ last'.fetch = {"observation"}
          /\ (~AqhiMatchesObservation(aqhi, last'.body)
                /\ AqhiMatchesForecast(aqhi, last'.body)) =>
                 /\ aqhi'.aqhi.current = aqhi.aqhi.current
                 /\ aqhi'.aqhi.utc_time = aqhi.aqhi.utc_time
                 /\ last'.fetch = {"forecast"}
          /\ (~AqhiMatchesObservation(aqhi, last'.body)
                /\ ~AqhiMatchesForecast(aqhi, last'.body)) =>
                 /\ aqhi' = aqhi
                 /\ last'.fetch = {}]_vars

\* in one poll a message of the forecast path and then one of the
\* observation path have been handled: the observation is renewed and the
\* forecasts are still those of the forecast document
C14_Witness ==
    /\ cls = "ECAQHI" /\ last.op = "process_message" /\ ~last.raised
    /\ last.fetch = {"observation"}
    /\ poll.fetches.forecast = 1 /\ poll.fetches.observation = 1
    /\ aqhi.aqhi.current = Fresh
    /\ aqhi.aqhi.forecasts = Fresh

(***************************************************************************)
(* Properties of the subscription queues (SpecQueue).                      *)
(***************************************************************************)
\* the notifications of the station of the i-th instance that wait in its
\* queue
Waiting(i) ==
    {k \in 1..Len(queues[insts[i].queue[2]].msgs) :
        queues[insts[i].queue[2]].msgs[k] = insts[i].station}

\* C11 (as stated): any two instances have distinct queues, and an
\* instance has fetched once for every notification of its station that
\* was published for its queue and no longer waits there.  Refuted: the
\* instances of one process have the same queue name, and a notification
\* put once on the shared queue is handed to one of them.
C11_DistinctQueuesBothFetch ==
    /\ \A i, j \in 1..Len(insts) : i # j => insts[i].queue # insts[j].queue
    /\ \A i \in 1..Len(insts) :
           Waiting(i) = {} => insts[i].fetches = insts[i].owed

(***************************************************************************)
(* Properties of the alerts (SpecAlerts).                                  *)
(***************************************************************************)
\* the categories a title has been placed in
PlacedIn(title) ==
    {c \in Categories : \E k \in 1..Len(alerts[c]) : alerts[c][k] = title}

\* the last word of the title is the word of the endings pattern
EndedSuffix(title) ==
    title[Len(title)] \in {"ENDED", "TERMINÉ", "TERMINÉE"}

\* C12 (as stated): a title is placed in at most one category, and a
\* title with the ended suffix in no category but endings.  Refuted: a
\* title in which the words of two patterns occur is placed in both
\* categories.
C12_OneCategoryPerTitle ==
    \A n \in 1..Len(alert_list) :
        /\ Cardinality(PlacedIn(alert_list[n])) <= 1
        /\ EndedSuffix(alert_list[n]) => PlacedIn(alert_list[n]) \subseteq {"endings"}

(***************************************************************************)
(* Properties of the remote calls (SpecCalls).                             *)
(***************************************************************************)
\* C13 (as stated): every remote call is time-bounded: a call in progress
\* has a timeout and has waited no longer than it.  Refuted: the request
\* of the alert page has no timeout and waits as long as the peer is
\* silent.
C13_EveryCallTimeBounded ==
    todo # <<>> => Head(todo).timed /\ waited <= Head(todo).timeout

(***************************************************************************)
(* Properties of the limiter (SpecLimiter).                                *)
(***************************************************************************)
\* C15 (as stated): no more than CALLS calls of ECData.update perform a
\* fetch within any PERIOD time units, and a call beyond them returns None
\* and raises nothing.  Refuted: the limiter counts the calls since its
\* last reset, so CALLS calls at the end of one count and CALLS at the
\* start of the next all fetch.
C15_AtMostCallsPerPeriod ==
    /\ Len(fetched) = CALLS + 1 => fetched[CALLS + 1] - fetched[1] >= PERIOD
    /\ (last.fetch = {} /\ last.op \in {"__init__", "update"}) => ~last.raised

(***************************************************************************)
(* Properties of the cache (SpecCache).                                    *)
(***************************************************************************)
\* the items of params, whatever their order
ItemsOf(params) == {params[i] : i \in 1..Len(params)}

\* the entries held for the pair (url, params) that have not expired
LiveEntries(url, params) ==
    {k \in CacheKeys : /\ k[1] = url /\ ItemsOf(k[2]) = ItemsOf(params)
                       /\ cache[k].held /\ cache[k].expiry >= clock}

\* C16: a get of (url, params) makes a request exactly when the cache
\* holds no entry for the url and the items of params, in whatever order,
\* whose expiry is not before the time of the call; otherwise it makes no
\* request and returns the response of that entry.  The expiry of a
\* response that a get returns, found or stored, is never before the time
\* at which the get was called.
C16_RequestIffNoLiveEntry ==
    [][/\ (served' # served /\ served'.kind \in {"hit", "miss"}) =>
              /\ (served'.kind = "miss") <=> (LiveEntries(served'.url, served'.params) = {})
              /\ (issued' = issued + 1) <=> (served'.kind = "miss")
              /\ served'.kind = "hit" =>
                     /\ \E k \in LiveEntries(served'.url, served'.params) :
                            served'.response = cache[k].response
                     /\ inflight' = inflight
       /\ served'.kind \in {"hit", "stored"} => served'.expiry >= served'.at]_vars

\* an entry stored for params in one order has been found for the same
\* items in the other order, at the very time of its expiry
C16_Witness ==
    /\ served.kind = "hit"
    /\ served.params = <<ItemB, ItemA>>
    /\ served.expiry = served.at
    /\ served.at > 0

====
